---------------------------- MODULE Spec2Model ----------------------------
(***************************************************************************)
(* quewuigrep: a model of src/src/lib.rs (Config::new, run, search,        *)
(* search_case_insensitive) and src/src/main.rs (main).                    *)
(*                                                                         *)
(* Strings are sequences of Unicode scalar values (code points).  The      *)
(* process is the straight-line program of main: build the configuration   *)
(* from argv and the environment, read the file, search, print each        *)
(* returned line, exit.  The standard library calls the code makes are     *)
(* modelled by what they return to it: str::lines, str::contains,          *)
(* str::to_lowercase (with its Final_Sigma rule), env::var (NotPresent,    *)
(* NotUnicode), fs::read_to_string (io::Error kinds).  Arguments are the   *)
(* Strings env::Args yields, and println!/eprintln! append to the stream.  *)
(***************************************************************************)
EXTENDS Integers, Sequences, FiniteSets, TLC

VARIABLES argv, env, pc, config, contents, results, printed, called,
          runErr, fileReads, stdout, stderr, exitCode

vars == <<argv, env, pc, config, contents, results, printed, called,
          runErr, fileReads, stdout, stderr, exitCode>>

-----------------------------------------------------------------------------
(* Bounds of the model *)

MaxQueryLen == 2
MaxContentsLen == 4
MaxArgc == 3

-----------------------------------------------------------------------------
(* Characters, as code points *)

LF == 10
CR == 13
UpperA == 65
LowerA == 97
CapitalSigma == 931
FinalSigma == 962
SmallSigma == 963

ContentChars == {LF, CR, UpperA, LowerA, CapitalSigma}
QueryChars == {UpperA, LowerA, CapitalSigma}

StringsUpTo(S, n) == UNION {[1..k -> S] : k \in 0..n}

Queries == StringsUpTo(QueryChars, MaxQueryLen)
Contents == StringsUpTo(ContentChars, MaxContentsLen)

ProgramName == <<113>>
Filenames == {<<102>>}

IoErrorKinds == {"NotFound", "PermissionDenied", "InvalidData"}

(* The CASE_INSENSITIVE entry of the process environment: absent, or present *)
(* with a value that is valid Unicode (possibly empty) or is not.            *)
EnvValues ==
    { [set |-> FALSE, unicode |-> TRUE,  value |-> <<>>],
      [set |-> TRUE,  unicode |-> TRUE,  value |-> <<>>],
      [set |-> TRUE,  unicode |-> TRUE,  value |-> <<49>>],
      [set |-> TRUE,  unicode |-> FALSE, value |-> <<>>] }

(* argv: the program name, then up to MaxArgc positional arguments *)
ArgvOfLen(n) ==
    IF n = 0 THEN {<<>>}
    ELSE IF n = 1 THEN {<<ProgramName>>}
    ELSE IF n = 2 THEN {<<ProgramName, q>> : q \in Queries}
    ELSE {<<ProgramName, q>> \o rest :
              q \in Queries, rest \in [1..(n - 2) -> Filenames]}

Argvs == UNION {ArgvOfLen(n) : n \in 0..MaxArgc}

-----------------------------------------------------------------------------
(* Standard-library string operations used by the search functions *)

Min(S) == CHOOSE x \in S : \A y \in S : x <= y

Reverse(s) == [i \in 1..Len(s) |-> s[Len(s) + 1 - i]]

(* Variant of Contains that finds no occurrence of an empty needle *)
ContainsNonEmpty(haystack, needle) ==
    /\ needle # <<>>
    /\ \E i \in 0..(Len(haystack) - Len(needle)) :
           SubSeq(haystack, i + 1, i + Len(needle)) = needle

(* str::contains with a &str pattern: needle occurs as a contiguous run *)
Contains(haystack, needle) ==
    \E i \in 0..(Len(haystack) - Len(needle)) :
        SubSeq(haystack, i + 1, i + Len(needle)) = needle

(* Variant of Lines that splits as str::split('\n') does: the text after  *)
(* the last line feed is a piece too, even when it is empty              *)
RECURSIVE SplitOnLineFeed(_)
SplitOnLineFeed(s) ==
    LET nl == {i \in 1..Len(s) : s[i] = LF}
    IN IF nl = {} THEN <<s>>
       ELSE <<SubSeq(s, 1, Min(nl) - 1)>>
                \o SplitOnLineFeed(SubSeq(s, Min(nl) + 1, Len(s)))

(* str::lines: split_inclusive('\n'); a piece that ends in "\n" loses it  *)
(* and then a "\r" before it; the last piece, without "\n", is kept as is *)
RECURSIVE Lines(_)
Lines(s) ==
    IF s = <<>> THEN <<>>
    ELSE LET nl == {i \in 1..Len(s) : s[i] = LF}
         IN IF nl = {} THEN <<s>>
            ELSE LET idx == Min(nl)
                     piece == SubSeq(s, 1, idx - 1)
                     line == IF piece # <<>> /\ piece[Len(piece)] = CR
                             THEN SubSeq(piece, 1, Len(piece) - 1)
                             ELSE piece
                 IN <<line>> \o Lines(SubSeq(s, idx + 1, Len(s)))

(* Unicode properties, on the code points of the model *)
Cased(c) ==
    c \in (65..90) \cup (97..122) \cup {CapitalSigma, FinalSigma, SmallSigma}

Case_Ignorable(c) == c \in {39, 46, 58, 94, 96}

(* char::to_lowercase, on the code points of the model *)
ToLower(c) ==
    IF c \in 65..90 THEN c + 32
    ELSE IF c = CapitalSigma THEN SmallSigma
    ELSE c

(* iter.skip_while(Case_Ignorable).next() is Some(c) with Cased(c) *)
CaseIgnorableThenCased(iter) ==
    LET rest == {i \in 1..Len(iter) : ~Case_Ignorable(iter[i])}
    IN IF rest = {} THEN FALSE ELSE Cased(iter[Min(rest)])

(* Final_Sigma: a capital sigma at the end of a word lowers to the final form *)
MapUppercaseSigma(from, i) ==
    IF /\ CaseIgnorableThenCased(Reverse(SubSeq(from, 1, i - 1)))
       /\ ~CaseIgnorableThenCased(SubSeq(from, i + 1, Len(from)))
    THEN FinalSigma
    ELSE SmallSigma

(* str::to_lowercase *)
ToLowercase(s) ==
    [i \in 1..Len(s) |->
        IF s[i] = CapitalSigma THEN MapUppercaseSigma(s, i) ELSE ToLower(s[i])]

-----------------------------------------------------------------------------
(* src/src/lib.rs *)

(* Variant of search that keeps only the first occurrence of a line *)
RECURSIVE Dedup(_)
Dedup(ls) ==
    IF ls = <<>> THEN <<>>
    ELSE LET front == Dedup(SubSeq(ls, 1, Len(ls) - 1))
             x == ls[Len(ls)]
         IN IF \E i \in 1..Len(front) : front[i] = x
            THEN front ELSE Append(front, x)

search_dedup(query, text) ==
    Dedup(SelectSeq(Lines(text), LAMBDA line : Contains(line, query)))

(* contents.lines().filter(|line| line.contains(query)).collect() *)
search(query, text) ==
    SelectSeq(Lines(text), LAMBDA line : Contains(line, query))

(* Variant of the loop that pushes the lowercased copy of the line *)
RECURSIVE SearchLoopPushLowered(_, _, _)
SearchLoopPushLowered(query, lines, acc) ==
    IF lines = <<>> THEN acc
    ELSE SearchLoopPushLowered(query, Tail(lines),
                    IF Contains(ToLowercase(Head(lines)), query)
                    THEN Append(acc, ToLowercase(Head(lines)))
                    ELSE acc)

(* the for loop of search_case_insensitive over the lines still to visit *)
RECURSIVE SearchLoop(_, _, _)
SearchLoop(query, lines, acc) ==
    IF lines = <<>> THEN acc
    ELSE SearchLoop(query, Tail(lines),
                    IF Contains(ToLowercase(Head(lines)), query)
                    THEN Append(acc, Head(lines))
                    ELSE acc)

search_case_insensitive(query, text) ==
    SearchLoop(ToLowercase(query), Lines(text), <<>>)

(* env::var(key): Ok(value), Err(NotPresent) or Err(NotUnicode) *)
EnvVar(e) ==
    IF ~e.set THEN [ok |-> FALSE, value |-> <<>>, err |-> "NotPresent"]
    ELSE IF ~e.unicode THEN [ok |-> FALSE, value |-> <<>>, err |-> "NotUnicode"]
    ELSE [ok |-> TRUE, value |-> e.value, err |-> "none"]

NoConfig == [query |-> <<>>, filename |-> <<>>, case_sensitive |-> TRUE]

(* Variant of Config::new with the two error messages exchanged *)
ConfigNewSwappedMessages(args, e) ==
    IF Len(args) < 2
    THEN [ok |-> FALSE, err |-> "Didn't get a filename!", config |-> NoConfig]
    ELSE IF Len(args) < 3
    THEN [ok |-> FALSE, err |-> "Didn't get a query string!", config |-> NoConfig]
    ELSE [ok |-> TRUE, err |-> "",
          config |-> [query |-> args[2], filename |-> args[3],
                      case_sensitive |-> ~EnvVar(e).ok]]

(* Variant of Config::new without the leading args.next(): the program *)
(* name is taken as the query                                          *)
ConfigNewNoSkip(args, e) ==
    IF Len(args) < 1
    THEN [ok |-> FALSE, err |-> "Didn't get a query string!", config |-> NoConfig]
    ELSE IF Len(args) < 2
    THEN [ok |-> FALSE, err |-> "Didn't get a filename!", config |-> NoConfig]
    ELSE [ok |-> TRUE, err |-> "",
          config |-> [query |-> args[1], filename |-> args[2],
                      case_sensitive |-> ~EnvVar(e).ok]]

(* Config::new: skip the program name, take the query, take the filename *)
ConfigNew(args, e) ==
    IF Len(args) < 2
    THEN [ok |-> FALSE, err |-> "Didn't get a query string!", config |-> NoConfig]
    ELSE IF Len(args) < 3
    THEN [ok |-> FALSE, err |-> "Didn't get a filename!", config |-> NoConfig]
    ELSE [ok |-> TRUE, err |-> "",
          config |-> [query |-> args[2], filename |-> args[3],
                      case_sensitive |-> ~EnvVar(e).ok]]

(* Display of the io::Error that fs::read_to_string returns *)
ErrorDisplay(kind) ==
    IF kind = "NotFound" THEN "No such file or directory (os error 2)"
    ELSE IF kind = "PermissionDenied" THEN "Permission denied (os error 13)"
    ELSE "stream did not contain valid UTF-8"

(* Variant of Println that writes no line terminator, as print! does *)
PrintNoNewline(out, line) == out \o line

(* println!("{}", line) *)
Println(out, line) == out \o line \o <<LF>>

(* Variant of Eprintln that drops the message *)
EprintlnNothing(err, prefix, reason) == err

(* eprintln!("<prefix>{}", reason) *)
Eprintln(err, prefix, reason) == Append(err, <<prefix, reason>>)

(* which search function run selects *)
SearchVariant(cfg) ==
    IF cfg.case_sensitive THEN "search" ELSE "search_case_insensitive"

RunSearchResults(cfg, text) ==
    IF cfg.case_sensitive
    THEN search(cfg.query, text)
    ELSE search_case_insensitive(cfg.query, text)

ExitSuccess == 0
ExitFailure == 1

-----------------------------------------------------------------------------
(* The process *)

Init ==
    /\ argv \in Argvs
    /\ env \in EnvValues
    /\ pc = "main"
    /\ config = NoConfig
    /\ contents = <<>>
    /\ results = <<>>
    /\ printed = 0
    /\ called = "none"
    /\ runErr = "none"
    /\ fileReads = 0
    /\ stdout = <<>>
    /\ stderr = <<>>
    /\ exitCode = -1

(* main: Config::new(env::args()) returned Ok(config) *)
MainConfigOk ==
    /\ pc = "main"
    /\ ConfigNew(argv, env).ok
    /\ config' = ConfigNew(argv, env).config
    /\ pc' = "run"
    /\ UNCHANGED <<argv, env, contents, results, printed, called, runErr,
                   fileReads, stdout, stderr, exitCode>>

(* main: Config::new returned Err(err); unwrap_or_else reports and exits *)
MainConfigErr ==
    /\ pc = "main"
    /\ ~ConfigNew(argv, env).ok
    /\ stderr' = Eprintln(stderr, "Problem parsing arguments: ",
                          ConfigNew(argv, env).err)
    /\ exitCode' = ExitFailure
    /\ pc' = "exit"
    /\ UNCHANGED <<argv, env, config, contents, results, printed, called,
                   runErr, fileReads, stdout>>

(* run: fs::read_to_string(config.filename) returned Ok(contents) *)
RunReadOk ==
    /\ pc = "run"
    /\ \E text \in Contents : contents' = text
    /\ fileReads' = fileReads + 1
    /\ pc' = "read"
    /\ UNCHANGED <<argv, env, config, results, printed, called, runErr,
                   stdout, stderr, exitCode>>

(* run: fs::read_to_string returned Err(e); the ? operator returns it *)
RunReadErr ==
    /\ pc = "run"
    /\ \E kind \in IoErrorKinds : runErr' = kind
    /\ fileReads' = fileReads + 1
    /\ pc' = "run_err"
    /\ UNCHANGED <<argv, env, config, contents, results, printed, called,
                   stdout, stderr, exitCode>>

(* run: results = search(..) or search_case_insensitive(..) *)
RunSearch ==
    /\ pc = "read"
    /\ called' = SearchVariant(config)
    /\ results' = RunSearchResults(config, contents)
    /\ pc' = "print"
    /\ UNCHANGED <<argv, env, config, contents, printed, runErr, fileReads,
                   stdout, stderr, exitCode>>

(* run: one iteration of for line in results { println!("{}", line) } *)
RunPrintln ==
    /\ pc = "print"
    /\ printed < Len(results)
    /\ stdout' = Println(stdout, results[printed + 1])
    /\ printed' = printed + 1
    /\ UNCHANGED <<argv, env, pc, config, contents, results, called, runErr,
                   fileReads, stderr, exitCode>>

(* run returns Ok(()); main returns and the process exits with success *)
RunReturnOk ==
    /\ pc = "print"
    /\ printed = Len(results)
    /\ exitCode' = ExitSuccess
    /\ pc' = "exit"
    /\ UNCHANGED <<argv, env, config, contents, results, printed, called,
                   runErr, fileReads, stdout, stderr>>

(* main: if let Err(e) = run(config) { eprintln!(..); process::exit(1) } *)
MainRunErr ==
    /\ pc = "run_err"
    /\ stderr' = Eprintln(stderr, "Application error: ", ErrorDisplay(runErr))
    /\ exitCode' = ExitFailure
    /\ pc' = "exit"
    /\ UNCHANGED <<argv, env, config, contents, results, printed, called,
                   runErr, fileReads, stdout>>

Next ==
    \/ MainConfigOk
    \/ MainConfigErr
    \/ RunReadOk
    \/ RunReadErr
    \/ RunSearch
    \/ RunPrintln
    \/ RunReturnOk
    \/ MainRunErr

Spec == Init /\ [][Next]_vars

-----------------------------------------------------------------------------
(* Vocabulary of the properties, stated without the operators above *)

Range(s) == {s[i] : i \in 1..Len(s)}

Count(x, s) == Cardinality({i \in 1..Len(s) : s[i] = x})

(* needle = hay[i+1..j] for some cut points i <= j *)
IsSubstring(needle, hay) ==
    \E i \in 0..Len(hay) : \E j \in i..Len(hay) : SubSeq(hay, i + 1, j) = needle

(* a is b with some elements deleted, the rest in b's order *)
RECURSIVE IsSubsequence(_, _)
IsSubsequence(a, b) ==
    IF a = <<>> THEN TRUE
    ELSE IF b = <<>> THEN FALSE
    ELSE IF Head(a) = Head(b) THEN IsSubsequence(Tail(a), Tail(b))
    ELSE IsSubsequence(a, Tail(b))

(* The lines of a text, by position: line k runs from just after the       *)
(* (k-1)-th line feed up to the k-th line feed (or the end of the text); a  *)
(* carriage return directly before the line feed belongs to the line break. *)
(* the positions of the line feeds of s, ascending *)
LineFeeds(s) == SelectSeq([i \in 1..Len(s) |-> i], LAMBDA i : s[i] = LF)

LineCount(s) ==
    Len(LineFeeds(s)) + (IF s # <<>> /\ s[Len(s)] # LF THEN 1 ELSE 0)

LineAt(s, k) ==
    LET feeds == LineFeeds(s)
        first == IF k = 1 THEN 1 ELSE feeds[k - 1] + 1
        terminated == k <= Len(feeds)
        last == IF terminated THEN feeds[k] - 1 ELSE Len(s)
    IN IF terminated /\ last >= first /\ s[last] = CR
       THEN SubSeq(s, first, last - 1)
       ELSE SubSeq(s, first, last)

LinesOf(s) == [k \in 1..LineCount(s) |-> LineAt(s, k)]

RECURSIVE Flatten(_)
Flatten(ls) ==
    IF ls = <<>> THEN <<>> ELSE Head(ls) \o <<LF>> \o Flatten(Tail(ls))

Searched == called # "none"

-----------------------------------------------------------------------------
(* Properties *)

(* C1: every line search returns contains the query as an exact substring, *)
(* every line of contents it does not return does not contain it, and the  *)
(* lines are the pieces of contents between line breaks, a final newline   *)
(* adding no empty last line.                                              *)
C1_SearchExactSubstring ==
    called = "search" =>
        LET lines == LinesOf(contents)
        IN /\ \A i \in 1..Len(results) :
                  /\ IsSubstring(config.query, results[i])
                  /\ results[i] \in Range(lines)
           /\ \A k \in 1..Len(lines) :
                  lines[k] \notin Range(results)
                      => ~IsSubstring(config.query, lines[k])

(* C1 witness: a text ending in a newline, with a returned line and a line *)
(* that is not returned, for a non-empty query                             *)
C1_Witness ==
    /\ called = "search"
    /\ config.query # <<>>
    /\ contents # <<>> /\ contents[Len(contents)] = LF
    /\ results # <<>>
    /\ \E k \in 1..LineCount(contents) : LineAt(contents, k) \notin Range(results)

(* C2: search_case_insensitive returns a line exactly when the lowercased  *)
(* copy of the line contains the lowercased query, and what it returns is  *)
(* the original line, not the lowercased copy.                             *)
C2_InsensitiveByLowercase ==
    called = "search_case_insensitive" =>
        LET lines == LinesOf(contents)
            lowered == ToLowercase(config.query)
        IN /\ \A i \in 1..Len(results) :
                  \E k \in 1..Len(lines) :
                      /\ results[i] = lines[k]
                      /\ IsSubstring(lowered, ToLowercase(lines[k]))
           /\ \A k \in 1..Len(lines) :
                  IsSubstring(lowered, ToLowercase(lines[k]))
                      => lines[k] \in Range(results)

(* C2 witness: a returned line that differs from its lowercased copy, for  *)
(* a query that differs from its lowercased copy, and a line left out      *)
C2_Witness ==
    /\ called = "search_case_insensitive"
    /\ config.query # ToLowercase(config.query)
    /\ \E i \in 1..Len(results) : results[i] # ToLowercase(results[i])
    /\ \E k \in 1..LineCount(contents) : LineAt(contents, k) \notin Range(results)

(* C3: every line search returns for a query and contents is also returned *)
(* by search_case_insensitive for the same query and contents.             *)
C3_InsensitiveSuperset ==
    /\ called = "search" =>
           Range(results)
               \subseteq Range(search_case_insensitive(config.query, contents))
    /\ called = "search_case_insensitive" =>
           Range(search(config.query, contents)) \subseteq Range(results)

(* C4: case_sensitive is false exactly when CASE_INSENSITIVE is set,       *)
(* whatever its value, and true exactly when it is unset.                  *)
C4_FlagIffVariableSet ==
    pc \in {"run", "read", "print", "run_err"} =>
        (config.case_sensitive <=> ~env.set)

(* C5: when the file cannot be read, nothing is ever written to standard   *)
(* output and no search runs; the process ends with exit code 1 and one    *)
(* "Application error: <reason>" message on standard error.  No output or  *)
(* search precedes the read.                                               *)
C5_ReadFailureNoOutput ==
    /\ fileReads = 0 => stdout = <<>> /\ called = "none"
    /\ runErr # "none" =>
           /\ stdout = <<>>
           /\ called = "none"
           /\ pc \in {"run_err", "exit"}
           /\ pc = "run_err" => stderr = <<>> /\ exitCode = -1
           /\ pc = "exit" =>
                  /\ exitCode = 1
                  /\ Len(stderr) = 1
                  /\ stderr[1][1] = "Application error: "
                  /\ stderr[1][2] \in
                         {"No such file or directory (os error 2)",
                          "Permission denied (os error 13)",
                          "stream did not contain valid UTF-8"}

(* C5 witness: the process has exited after a failed read of a file whose  *)
(* configuration selected a query                                          *)
C5_Witness ==
    /\ pc = "exit"
    /\ runErr = "NotFound"
    /\ config.query # <<>>

C8_RunPrintsResults ==
    (fileReads = 1 /\ runErr = "none") =>
        /\ pc \in {"read", "print", "exit"}
        /\ pc = "read" => called = "none" /\ stdout = <<>>
        /\ pc \in {"print", "exit"} =>
               /\ config.case_sensitive =>
                      /\ called = "search"
                      /\ results = search(config.query, contents)
               /\ ~config.case_sensitive =>
                      /\ called = "search_case_insensitive"
                      /\ results = search_case_insensitive(config.query, contents)
               /\ printed \in 0..Len(results)
               /\ stdout = Flatten(SubSeq(results, 1, printed))
               /\ stderr = <<>>
        /\ pc = "exit" =>
               /\ stdout = Flatten(results)
               /\ exitCode = 0

(* C8 witness: the process has exited with code 0 after printing at least  *)
(* two lines found by the case-insensitive search                          *)
C8_Witness ==
    /\ pc = "exit"
    /\ exitCode = 0
    /\ called = "search_case_insensitive"
    /\ Len(results) >= 2
    /\ Len(results) < LineCount(contents)

(* C9: for both search functions the result is a subsequence of the lines  *)
(* of contents in file order, and a returned line that occurs k times in   *)
(* contents occurs k times in the result.                                  *)
C9_ResultIsSubsequence ==
    Searched =>
        LET lines == LinesOf(contents)
        IN /\ IsSubsequence(results, lines)
           /\ \A x \in Range(results) : Count(x, results) = Count(x, lines)

(* C9 witness: a line that occurs twice in contents is returned twice,     *)
(* with another line of contents between or beside them left out           *)
C9_Witness ==
    /\ Searched
    /\ \E i, j \in 1..Len(results) : i < j /\ results[i] = results[j]
    /\ config.query # <<>>

(* C10: with an empty query both search functions return every line of     *)
(* contents, unchanged and in order; empty contents yields an empty result *)
C10_EmptyQueryAllLines ==
    Searched =>
        /\ config.query = <<>> => results = LinesOf(contents)
        /\ contents = <<>> => results = <<>>

(* C10 witness: an empty query over a text of several lines, one of them   *)
(* with an upper-case letter, searched case-insensitively                  *)
C10_Witness ==
    /\ called = "search_case_insensitive"
    /\ config.query = <<>>
    /\ Len(results) >= 2
    /\ \E i \in 1..Len(results) : results[i] # ToLowercase(results[i])

====
